---- MODULE Spec2Model ----
(***************************************************************************)
(* Model of the pothole detection server (src/main.py): the upload         *)
(* handler, the thread pool running process_video_and_detect, the shared   *)
(* data_queue and the single database_worker.                              *)
(***************************************************************************)
EXTENDS Integers, Sequences, FiniteSets, TLC

\* ---------------------------------------------------------------- bounds
NumJobs == 3        \* upload requests the model follows
MaxTotalFrames == 4 \* frames in all uploaded videos together, when one upload stays away
FewFrames == 1      \* the same, when every upload arrives
NumTrackIds == 2    \* track ids the tracker may issue within one job
MaxClock == 1       \* seconds the wall clock may advance
CropSlack == 2      \* crop study: how far around each edge the box coordinates range
PoolSize == 2       \* threads of the pool: os.cpu_count() or 2
NumSessions == 2    \* dashboard sessions open at the same time
MaxVideoFrames == 7 \* frames of the one video of the long-video specification
SevSlack == 2       \* severity study: how far around each chosen bottom edge y2 ranges
DetSlack == 1       \* filter study: how far around each threshold the detection's values range

\* ------------------------------------------------------- program constants
FRAME_SKIP == 3
PADDING_PIXELS == 75
PERSPECTIVE_MULTIPLIER_X2 == 5  \* 2.5, doubled to stay in the integers
LARGE_THRESHOLD == 40000
MEDIUM_THRESHOLD == 15000
CONFIDENCE_THRESHOLD_X100 == 60 \* 0.6, in hundredths
MIN_BOX_WIDTH == 20
MIN_BOX_HEIGHT == 20
FrameW == 1920                  \* cap.get(CAP_PROP_FRAME_WIDTH) of the modelled videos
FrameH == 1080                  \* cap.get(CAP_PROP_FRAME_HEIGHT)

Jobs == 1..NumJobs
Threads == 1..PoolSize
TrackIds == 1..NumTrackIds
DbWorker == "db_worker_thread"
Sessions == 1..NumSessions

\* Boxes the tracker reports in the pipeline model, as (x1, y1, x2, y2): one
\* inside the frame and one lying wholly to the right of it.
Boxes == { <<800, 700, 1000, 820>>, <<2100, 700, 2300, 820>> }

Max(a, b) == IF a >= b THEN a ELSE b
Min(a, b) == IF a <= b THEN a ELSE b

\* ------------------------------------------------------- requests
\* A POST to /api/report: whether it has a 'video' part, the form's latitude and
\* longitude ("missing": the field is absent) and the part's filename.
GoodRequest(name) ==
    [video |-> TRUE, latitude |-> "12.97", longitude |-> "77.59", filename |-> name]
NoVideoRequest ==
    [video |-> FALSE, latitude |-> "12.97", longitude |-> "77.59", filename |-> ""]
BadRequests ==
    { NoVideoRequest,
      [GoodRequest("clip.mp4") EXCEPT !.latitude = "missing"],
      [GoodRequest("clip.mp4") EXCEPT !.longitude = "abc"],
      [GoodRequest("clip.mp4") EXCEPT !.latitude = ""],
      GoodRequest("") }

\* float(request.form.get(...)): None raises TypeError, text that is no number
\* raises ValueError; the number is kept in hundredths.
ParseFloat(text) ==
    CASE text = "12.97" -> [ok |-> TRUE, value |-> 1297]
      [] text = "77.59" -> [ok |-> TRUE, value |-> 7759]
      [] OTHER -> [ok |-> FALSE, value |-> 0]

\* werkzeug's secure_filename: path separators and leading dots go, blanks
\* become underscores.
secure_filename(name) ==
    CASE name = "../clip.mp4" -> "clip.mp4"
      [] name = "my clip.mp4" -> "my_clip.mp4"
      [] OTHER -> name

\* A file name no other job's client uses.
OwnName(j) ==
    CASE j = 1 -> "road.mp4"
      [] j = 2 -> "lane.mp4"
      [] OTHER -> "street.mp4"
SharedNames == {"clip.mp4", "../clip.mp4", "my clip.mp4"}
VideoNames == { secure_filename(n) : n \in SharedNames \cup { OwnName(j) : j \in Jobs } }

\* What the clients send: how many reports are posted, how many frames their
\* videos hold together, and the requests each client may post.
OwnRequests == [j \in Jobs |-> { GoodRequest(OwnName(j)), NoVideoRequest }]
AnyRequests == [j \in Jobs |-> BadRequests \cup { GoodRequest(n) : n \in SharedNames }]
Scenarios == { [arrivals |-> NumJobs - 1, frames |-> MaxTotalFrames, requests |-> OwnRequests],
               [arrivals |-> NumJobs, frames |-> FewFrames, requests |-> OwnRequests] }

VARIABLES
    scenario,           \* the clients' behaviour, one of Scenarios, fixed from the start
    pc,                 \* per job: where its request / pipeline stands
    workQueue,          \* executor's queue of submitted, not yet started jobs
    jthread,            \* per job: the pool thread running it (0: none)
    frame_count,        \* per job
    lastTid,            \* per job: id of the track the for loop handled last (0: none yet)
    saved_pothole_ids,  \* per job: the dedup ledger
    observed,           \* per job (history): confirmed track ids in first-seen order
    emitted,            \* per job (history): track ids of the tasks put, in order
    suppressed,         \* per job (history): confirmed track ids seen again and skipped
    queuedWhileBusy,    \* (history) waiting jobs that were submitted while no pool thread was idle
    data_queue,         \* Queue() shared by all pipelines
    wpc,                \* database_worker: "get", "save" or "raised"
    wtask,              \* database_worker: the task being saved
    popped,             \* per job (history): track ids of the tasks the worker took
    writers,            \* threads currently inside save_to_database_mongo
    potholes_collection,\* the documents inserted
    clock,              \* the second time.strftime gave last
    images,             \* names of the files in IMAGE_FOLDER
    overwritten,        \* (history) whether an image file was written over an existing one
    cropIn,             \* crop study: the box given to save_pothole_image, or <<>>
    cropOut,            \* crop study: <<safe_x1, safe_y1, safe_x2, safe_y2>>, or <<>>
    upload_folder,      \* per file name in UPLOAD_FOLDER: the job whose upload the file holds (0: no file)
    video_path,         \* per job: the name its upload was saved under ("none": not saved)
    response,           \* per job: what handle_report answered
    request,            \* per job (history): the request it arrived with
    cap_opened,         \* per job (history): what cap.isOpened() gave: "unset", "yes" or "no"
    detected,           \* per job (history): frame_count of the frames given to model(frame), in order
    inserted,           \* per job (history): track ids of the tasks insert_one stored, in order
    shown,              \* per dashboard session: pothole_to_verify of its last script run (doc, the
                        \* document's src or NoDoc) and the pressed button whose update is pending
    sevIn,              \* severity study: [box, up], or <<>>
    sevOut,             \* severity study: the severities of box and of box moved up, or <<>>
    detIn,              \* filter study: the detection [conf, w, h] of a result, or <<>>
    detOut              \* filter study: whether the loop has run, and the detections list after it

poolVars == <<pc, workQueue, jthread>>
localVars == <<frame_count, lastTid, saved_pothole_ids>>
histVars == <<observed, emitted, suppressed>>
submitVars == <<queuedWhileBusy>>
workerVars == <<wpc, wtask, popped>>
storeVars == <<writers, potholes_collection>>
imageVars == <<clock, images, overwritten>>
cropVars == <<cropIn, cropOut>>
uploadVars == <<upload_folder, video_path, response, request>>
studyVars == <<sevIn, sevOut, detIn, detOut>>
vars == <<scenario, poolVars, localVars, histVars, submitVars, data_queue, workerVars, storeVars,
          imageVars, cropVars, uploadVars, cap_opened, detected, inserted, shown, studyVars>>

NoTask == [src |-> <<0, 0>>]
NoDoc == <<0, 0>>
NoResponse == [code |-> 0, text |-> ""]
NoDetections == [done |-> FALSE, detections |-> <<>>]
NoRequest == [video |-> FALSE, latitude |-> "", longitude |-> "", filename |-> "no request"]

\* ------------------------------------------------------- pure functions

AdjustedAreaX2HFromTop(box, frame_h) ==
    (box[3] - box[1]) * (box[4] - box[2]) * (2 * frame_h + box[4] * PERSPECTIVE_MULTIPLIER_X2)
\* get_pothole_severity: adjusted_area = pixel_area * (1 + ((frame_h - y2) / frame_h) * 2.5),
\* compared with the thresholds after multiplying both sides by 2 * frame_h.
AdjustedAreaX2H(box, frame_h) ==
    (box[3] - box[1]) * (box[4] - box[2])
        * (2 * frame_h + (frame_h - box[4]) * PERSPECTIVE_MULTIPLIER_X2)

get_pothole_severity_inclusive(box, frame_h) ==
    IF AdjustedAreaX2H(box, frame_h) >= LARGE_THRESHOLD * 2 * frame_h THEN "Large"
    ELSE IF AdjustedAreaX2H(box, frame_h) >= MEDIUM_THRESHOLD * 2 * frame_h THEN "Medium"
    ELSE "Small"
get_pothole_severity(box, frame_h) ==
    IF AdjustedAreaX2H(box, frame_h) > LARGE_THRESHOLD * 2 * frame_h THEN "Large"
    ELSE IF AdjustedAreaX2H(box, frame_h) > MEDIUM_THRESHOLD * 2 * frame_h THEN "Medium"
    ELSE "Small"

\* save_pothole_image, lines 91-98: pad, then clamp.
CropRegion(frame_w, frame_h, box) ==
    << Max(0, box[1] - PADDING_PIXELS),
       Max(0, box[2] - PADDING_PIXELS),
       Min(frame_w, box[3] + PADDING_PIXELS),
       Min(frame_h, box[4] + PADDING_PIXELS) >>

\* Length of the numpy slice a[start:stop] of an axis of n elements: a negative
\* bound counts from the end, and both are clipped to 0..n.
SliceLen(start, stop, n) ==
    LET norm(i) == IF i < 0 THEN Max(i + n, 0) ELSE Min(i, n)
    IN  Max(0, norm(stop) - norm(start))

\* frame[safe_y1:safe_y2, safe_x1:safe_x2] is empty: cv2.imwrite raises on it.
CropEmpty(frame_w, frame_h, r) ==
    \/ SliceLen(r[1], r[3], frame_w) = 0
    \/ SliceLen(r[2], r[4], frame_h) = 0

\* image_name: the clock's second and the running thread's ident.
ImageName(sec, ident) == <<sec, ident>>

\* ------------------------------------------------------- queue, ledger, pool
QueuePutFront(q, x) == <<x>> \o q
\* data_queue.put
QueuePut(q, x) == Append(q, x)

ShouldEmitAlways(ledger, tid) == TRUE
ShouldEmitUnlessAnySaved(ledger, tid) == \A k \in Jobs : tid \notin saved_pothole_ids[k]
\* track_id not in saved_pothole_ids
ShouldEmit(ledger, tid) == tid \notin ledger

RunningPcs == {"open", "read", "model", "tracks"}
Terminal == {"returned", "not_opened", "raised_model", "raised_imwrite"}
Running == { j \in Jobs : pc[j] \in RunningPcs }

AllThreads == Threads
\* The pool's threads that run no job.
IdleThreads == { t \in Threads : \A j \in Running : jthread[j] # t }

\* ------------------------------------------------------------------ Init
\* The server after start-up: no request yet, database_worker waiting on the queue.
ServerInit ==
    /\ pc = [j \in Jobs |-> "new"]
    /\ workQueue = <<>>
    /\ jthread = [j \in Jobs |-> 0]
    /\ frame_count = [j \in Jobs |-> 0]
    /\ lastTid = [j \in Jobs |-> 0]
    /\ saved_pothole_ids = [j \in Jobs |-> {}]
    /\ observed = [j \in Jobs |-> <<>>]
    /\ emitted = [j \in Jobs |-> <<>>]
    /\ suppressed = [j \in Jobs |-> {}]
    /\ queuedWhileBusy = {}
    /\ data_queue = <<>>
    /\ wpc = "get"
    /\ wtask = NoTask
    /\ popped = [j \in Jobs |-> <<>>]
    /\ writers = {}
    /\ potholes_collection = {}
    /\ clock = 0
    /\ images = {}
    /\ overwritten = FALSE
    /\ upload_folder = [n \in VideoNames |-> 0]
    /\ video_path = [j \in Jobs |-> "none"]
    /\ response = [j \in Jobs |-> NoResponse]
    /\ request = [j \in Jobs |-> NoRequest]
    /\ cap_opened = [j \in Jobs |-> "unset"]
    /\ detected = [j \in Jobs |-> <<>>]
    /\ inserted = [j \in Jobs |-> <<>>]
    /\ shown = [s \in Sessions |-> [doc |-> NoDoc, pending |-> "none"]]

\* No study of a pure function is under way.
NoStudy ==
    /\ cropIn = <<>>
    /\ cropOut = <<>>
    /\ sevIn = <<>>
    /\ sevOut = <<>>
    /\ detIn = <<>>
    /\ detOut = NoDetections

Init ==
    /\ scenario \in Scenarios
    /\ ServerInit
    /\ NoStudy

\* ------------------------------------------------------------- handle_report
RejectReasonSkippingFilename(req) ==
    IF ~req.video THEN "No video file part"
    ELSE IF ~ParseFloat(req.latitude).ok \/ ~ParseFloat(req.longitude).ok
    THEN "Invalid or missing location data"
    ELSE ""
\* Lines 222-233: the three checks, in the code's order; the reason of a 400, or "".
RejectReason(req) ==
    IF ~req.video THEN "No video file part"
    ELSE IF ~ParseFloat(req.latitude).ok \/ ~ParseFloat(req.longitude).ok
    THEN "Invalid or missing location data"
    ELSE IF req.filename = "" THEN "No selected file"
    ELSE ""

SubmitUnlessBusy(q, j) == IF IdleThreads = {} THEN q ELSE Append(q, j)
\* executor.submit
Submit(q, j) == Append(q, j)

\* file.save(video_path): the file of that name now holds this upload.
SaveVideo(folder, name, j) == [folder EXCEPT ![name] = j]

\* A request is rejected with 400 (no video part, bad location, empty filename)
\* or saved under its sanitized name, submitted to the pool and answered 202.
HandleReport(j) ==
    /\ pc[j] = "new"
    /\ j <= scenario.arrivals
    /\ \E req \in scenario.requests[j] :
        /\ request' = [request EXCEPT ![j] = req]
        /\ IF RejectReason(req) = ""
           THEN LET filename == secure_filename(req.filename)
                IN  /\ upload_folder' = SaveVideo(upload_folder, filename, j)
                    /\ video_path' = [video_path EXCEPT ![j] = filename]
                    /\ pc' = [pc EXCEPT ![j] = "queued"]
                    /\ workQueue' = Submit(workQueue, j)
                    /\ queuedWhileBusy' =
                           queuedWhileBusy \cup (IF IdleThreads = {} THEN {j} ELSE {})
                    /\ response' = [response EXCEPT ![j] = [code |-> 202, text |-> filename]]
           ELSE /\ pc' = [pc EXCEPT ![j] = "rejected"]
                /\ response' = [response EXCEPT ![j] = [code |-> 400, text |-> RejectReason(req)]]
                /\ UNCHANGED <<workQueue, queuedWhileBusy, upload_folder, video_path>>
    /\ UNCHANGED <<scenario, jthread, localVars, histVars, data_queue, workerVars,
                   storeVars, imageVars, cropVars, cap_opened, detected, inserted, shown,
                   studyVars>>

\* A pool thread with nothing to do takes the oldest submitted job.
Start(j, t) ==
    /\ workQueue # <<>>
    /\ Head(workQueue) = j
    /\ t \in IdleThreads
    /\ workQueue' = Tail(workQueue)
    /\ pc' = [pc EXCEPT ![j] = "open"]
    /\ jthread' = [jthread EXCEPT ![j] = t]
    /\ queuedWhileBusy' = queuedWhileBusy \ {j}
    /\ UNCHANGED <<scenario, localVars, histVars, data_queue, workerVars, storeVars,
                   imageVars, cropVars,
                   uploadVars, cap_opened, detected, inserted, shown, studyVars>>

\* ------------------------------------------------- process_video_and_detect
\* The pipeline of job j moves to p; when p ends the call, its pool thread is free.
Goto(j, p) ==
    /\ pc' = [pc EXCEPT ![j] = p]
    /\ jthread' = [jthread EXCEPT ![j] = IF p \in Terminal THEN 0 ELSE @]

AfterOpenIgnoringFailure(opened) == "read"
\* Lines 147-149: where the call goes on after cap.isOpened().
AfterOpen(opened) == IF opened THEN "read" ELSE "not_opened"

\* cv2.VideoCapture(video_path); not cap.isOpened() returns at once.
Open(j) ==
    /\ pc[j] = "open"
    /\ \E opened \in BOOLEAN :
        /\ Goto(j, AfterOpen(opened))
        /\ cap_opened' = [cap_opened EXCEPT ![j] = IF opened THEN "yes" ELSE "no"]
    /\ UNCHANGED <<scenario, workQueue, localVars, histVars, submitVars, data_queue, workerVars,
                   storeVars, imageVars, cropVars,
                   uploadVars, detected, inserted, shown, studyVars>>

\* Frames the pipelines have read so far, over all jobs.
RECURSIVE SumTo(_, _)
SumTo(f, n) == IF n = 0 THEN 0 ELSE f[n] + SumTo(f, n - 1)
FramesRead ==
    SumTo([j \in Jobs |-> frame_count[j] + IF pc[j] \in {"model", "tracks"} THEN 1 ELSE 0],
          NumJobs)

SampledOffByOne(n) == (n + 1) % FRAME_SKIP = 0
\* Line 172: frame_count % FRAME_SKIP == 0.
Sampled(n) == n % FRAME_SKIP = 0

\* cap.read(): end of stream leaves the loop; an unsampled frame is only counted.
Read(j) ==
    /\ pc[j] = "read"
    /\ \E success \in BOOLEAN :
        /\ success => FramesRead < scenario.frames
        /\ IF ~success
           THEN /\ Goto(j, "returned")
                /\ UNCHANGED frame_count
           ELSE IF Sampled(frame_count[j])
           THEN /\ Goto(j, "model")
                /\ UNCHANGED frame_count
           ELSE /\ frame_count' = [frame_count EXCEPT ![j] = @ + 1]
                /\ UNCHANGED <<pc, jthread>>
    /\ UNCHANGED <<scenario, workQueue, lastTid, saved_pothole_ids, histVars, submitVars, data_queue,
                   workerVars, storeVars, imageVars, cropVars,
                   uploadVars, cap_opened, detected, inserted, shown, studyVars>>

\* model(frame) and tracker.update_tracks: an exception of the detector is not
\* caught anywhere in process_video_and_detect.
Model(j) ==
    /\ pc[j] = "model"
    /\ detected' = [detected EXCEPT ![j] = Append(@, frame_count[j])]
    /\ \E ok \in BOOLEAN : Goto(j, IF ok THEN "tracks" ELSE "raised_model")
    /\ UNCHANGED <<scenario, workQueue, localVars, histVars, submitVars, data_queue, workerVars,
                   storeVars, imageVars, cropVars,
                   uploadVars, cap_opened, inserted, shown, studyVars>>

EmitTaskDirect(j, task) ==
    /\ UNCHANGED data_queue
    /\ writers' = writers \cup {"pool_thread"}
    /\ potholes_collection' = potholes_collection \cup
          {[src |-> task.src, severity |-> task.severity, image |-> task.image,
            status |-> "unverified", by |-> "pool_thread"]}
\* Line 201 and what it leaves alone: the task goes to data_queue, and the
\* pipeline thread writes nothing to the store.
EmitTask(j, task) ==
    /\ data_queue' = QueuePut(data_queue, task)
    /\ UNCHANGED <<writers, potholes_collection>>

\* One iteration of "for track in tracks" (lines 185-203); the tracker lists its
\* tracks in the order it created them, by increasing track_id. now is the second
\* time.strftime gives in save_pothole_image.
Track(j) ==
    /\ pc[j] = "tracks"
    /\ \E tid \in TrackIds, confirmed \in BOOLEAN, box \in Boxes, now \in clock..MaxClock :
        /\ tid > lastTid[j]
        /\ observed' = [observed EXCEPT ![j] =
              IF confirmed /\ \A i \in 1..Len(@) : @[i] # tid THEN Append(@, tid) ELSE @]
        /\ IF confirmed /\ ShouldEmit(saved_pothole_ids[j], tid)
           THEN LET region == CropRegion(FrameW, FrameH, box)
                    name == ImageName(now, jthread[j])
                    task == [src |-> <<j, tid>>,
                             severity |-> get_pothole_severity(box, FrameH),
                             image |-> name]
                IN  IF CropEmpty(FrameW, FrameH, region)
                    THEN /\ Goto(j, "raised_imwrite")
                         /\ lastTid' = [lastTid EXCEPT ![j] = 0]
                         /\ clock' = now
                         /\ UNCHANGED <<data_queue, storeVars, saved_pothole_ids, emitted,
                                        suppressed, images, overwritten>>
                    ELSE /\ images' = images \cup {name}
                         /\ overwritten' = (overwritten \/ name \in images)
                         /\ clock' = now
                         /\ EmitTask(j, task)
                         /\ saved_pothole_ids' = [saved_pothole_ids EXCEPT ![j] = @ \cup {tid}]
                         /\ emitted' = [emitted EXCEPT ![j] = Append(@, tid)]
                         /\ lastTid' = [lastTid EXCEPT ![j] = tid]
                         /\ UNCHANGED <<pc, jthread, suppressed>>
           ELSE /\ lastTid' = [lastTid EXCEPT ![j] = tid]
                /\ suppressed' = [suppressed EXCEPT ![j] =
                      IF confirmed THEN @ \cup {tid} ELSE @]
                /\ now = clock
                /\ UNCHANGED <<pc, jthread, data_queue, storeVars, saved_pothole_ids,
                               emitted, imageVars>>
    /\ UNCHANGED <<scenario, workQueue, frame_count, submitVars, workerVars, cropVars,
                   uploadVars, cap_opened, detected, inserted, shown, studyVars>>

\* The for loop is over: frame_count += 1 (line 208).
EndFrame(j) ==
    /\ pc[j] = "tracks"
    /\ Goto(j, "read")
    /\ frame_count' = [frame_count EXCEPT ![j] = @ + 1]
    /\ lastTid' = [lastTid EXCEPT ![j] = 0]
    /\ UNCHANGED <<scenario, workQueue, saved_pothole_ids, histVars, submitVars, data_queue,
                   workerVars, storeVars, imageVars, cropVars,
                   uploadVars, cap_opened, detected, inserted, shown, studyVars>>

\* ------------------------------------------------------------ database_worker
QueueRestKeepingHead(q) == q
\* data_queue.get() removes the oldest task.
QueueRest(q) == Tail(q)

\* data_queue.get(), then the call of save_to_database_mongo begins.
WorkerGet ==
    /\ wpc = "get"
    /\ data_queue # <<>>
    /\ wtask' = Head(data_queue)
    /\ data_queue' = QueueRest(data_queue)
    /\ popped' = [popped EXCEPT ![Head(data_queue).src[1]] = Append(@, Head(data_queue).src[2])]
    /\ wpc' = "save"
    /\ writers' = writers \cup {DbWorker}
    /\ UNCHANGED <<scenario, poolVars, localVars, histVars, submitVars, potholes_collection,
                   imageVars, cropVars,
                   uploadVars, cap_opened, detected, inserted, shown, studyVars>>

\* insert_one returns, and the loop goes on, or raises: database_worker has no
\* handler, so the exception ends its thread.
WorkerSave ==
    /\ wpc = "save"
    /\ \E ok \in BOOLEAN :
        IF ok
        THEN /\ potholes_collection' = potholes_collection \cup
                   {[src |-> wtask.src, severity |-> wtask.severity, image |-> wtask.image,
                     status |-> "unverified", by |-> DbWorker]}
             /\ inserted' = [inserted EXCEPT ![wtask.src[1]] = Append(@, wtask.src[2])]
             /\ wpc' = "get"
        ELSE /\ wpc' = "raised"
             /\ UNCHANGED <<potholes_collection, inserted>>
    /\ writers' = writers \ {DbWorker}
    /\ wtask' = NoTask
    /\ UNCHANGED <<scenario, poolVars, localVars, histVars, submitVars, data_queue, popped,
                   imageVars, cropVars,
                   uploadVars, cap_opened, detected, shown, studyVars>>

JobStep(j) == Open(j) \/ Read(j) \/ Model(j) \/ Track(j) \/ EndFrame(j)

Next ==
    \/ \E j \in Jobs : HandleReport(j)
    \/ \E j \in Jobs, t \in Threads : Start(j, t)
    \/ \E j \in Jobs : Open(j)
    \/ \E j \in Jobs : Read(j)
    \/ \E j \in Jobs : Model(j)
    \/ \E j \in Jobs : Track(j)
    \/ \E j \in Jobs : EndFrame(j)
    \/ WorkerGet
    \/ WorkerSave

Spec == Init /\ [][Next]_vars

\* The pool's threads and the operating system run every pipeline that can take
\* a step, and start a submitted job once a thread is idle.
FairSpec ==
    /\ Spec
    /\ \A j \in Jobs : WF_vars(JobStep(j))
    /\ \A j \in Jobs : WF_vars(\E t \in Threads : Start(j, t))

\* The operating system also runs database_worker whenever it can take a step;
\* two clients post, their videos hold FewFrames + 1 frames together.
WorkerInit ==
    /\ scenario = [arrivals |-> NumJobs - 1, frames |-> FewFrames + 1, requests |-> OwnRequests]
    /\ ServerInit
    /\ NoStudy

WorkerFairSpec ==
    /\ WorkerInit
    /\ [][Next]_vars
    /\ \A j \in Jobs : WF_vars(JobStep(j))
    /\ \A j \in Jobs : WF_vars(\E t \in Threads : Start(j, t))
    /\ WF_vars(WorkerGet)
    /\ WF_vars(WorkerSave)

\* Clients that post any request: valid ones whose file names may agree after
\* secure_filename, and invalid ones of every kind.
UploadInit ==
    /\ scenario = [arrivals |-> NumJobs - 1, frames |-> FewFrames, requests |-> AnyRequests]
    /\ ServerInit
    /\ NoStudy

UploadSpec == UploadInit /\ [][Next]_vars

\* One client posts one video of up to MaxVideoFrames frames.
LongVideoInit ==
    /\ scenario = [arrivals |-> 1, frames |-> MaxVideoFrames, requests |-> OwnRequests]
    /\ ServerInit
    /\ NoStudy

LongVideoSpec == LongVideoInit /\ [][Next]_vars

\* ------------------------------------------------------------- dashboard
\* potholes_collection.find_one({"status": "unverified"}): the _id (here the src)
\* of some unverified document, or None.
FindOneUnverified(collection) ==
    IF \E d \in collection : d.status = "unverified"
    THEN { d.src : d \in { e \in collection : e.status = "unverified" } }
    ELSE { NoDoc }

\* update_one({"_id": id}, {"$set": {"status": status}}): the filter names the
\* document by its _id alone.
UpdateStatus(collection, id, status) ==
    { IF d.src = id THEN [d EXCEPT !.status = status] ELSE d : d \in collection }

\* A run of the dashboard script in session s, up to the verification queue:
\* the page was opened or refreshed (button "none"), or a button of the page was
\* pressed, which makes streamlit run the script again from the top. find_one
\* sets pothole_to_verify; with a document and a pressed button the run's
\* update_one is still to come.
DashRun(s, button) ==
    /\ shown[s].pending = "none"
    /\ button # "none" => shown[s].doc # NoDoc
    /\ \E id \in FindOneUnverified(potholes_collection) :
          shown' = [shown EXCEPT ![s] =
                       [doc |-> id, pending |-> IF id = NoDoc THEN "none" ELSE button]]
    /\ UNCHANGED <<scenario, poolVars, localVars, histVars, submitVars, data_queue,
                   workerVars, storeVars, imageVars, cropVars, uploadVars, cap_opened,
                   detected, inserted, studyVars>>

\* The pressed button's branch: update_one on pothole_to_verify, then
\* st.rerun() runs the script again and shows the next document.
DashUpdate(s) ==
    /\ shown[s].pending # "none"
    /\ potholes_collection' = UpdateStatus(potholes_collection, shown[s].doc, shown[s].pending)
    /\ \E id \in FindOneUnverified(potholes_collection') :
          shown' = [shown EXCEPT ![s] = [doc |-> id, pending |-> "none"]]
    /\ UNCHANGED <<scenario, poolVars, localVars, histVars, submitVars, data_queue,
                   workerVars, writers, imageVars, cropVars, uploadVars, cap_opened,
                   detected, inserted, studyVars>>

\* The server with one client, and the dashboard's sessions beside it.
DashboardInit ==
    /\ scenario = [arrivals |-> 1, frames |-> FewFrames, requests |-> OwnRequests]
    /\ ServerInit
    /\ NoStudy

DashboardNext ==
    \/ Next
    \/ \E s \in Sessions, button \in {"none", "confirmed", "rejected"} : DashRun(s, button)
    \/ \E s \in Sessions : DashUpdate(s)

DashboardSpec == DashboardInit /\ [][DashboardNext]_vars

\* ------------------------------------------------------------- crop study
\* save_pothole_image on its own: boxes with x1 < x2 and y1 < y2 whose edges lie
\* around the frame's edges and the padding beyond them.
CropAxis(n) ==
    { c + d : c \in {-PADDING_PIXELS, 0, n, n + PADDING_PIXELS}, d \in -CropSlack..CropSlack }
CropBoxes ==
    { b \in CropAxis(FrameW) \X CropAxis(FrameH) \X CropAxis(FrameW) \X CropAxis(FrameH) :
        b[1] < b[3] /\ b[2] < b[4] }

CropInit ==
    /\ scenario = [arrivals |-> 0, frames |-> 0]
    /\ ServerInit
    /\ cropIn \in CropBoxes
    /\ cropOut = <<>>
    /\ sevIn = <<>>
    /\ sevOut = <<>>
    /\ detIn = <<>>
    /\ detOut = NoDetections

SavePotholeImage ==
    /\ cropIn # <<>>
    /\ cropOut = <<>>
    /\ cropOut' = CropRegion(FrameW, FrameH, cropIn)
    /\ UNCHANGED <<scenario, poolVars, localVars, histVars, submitVars, data_queue,
                   workerVars, storeVars, imageVars, cropIn,
                   uploadVars, cap_opened, detected, inserted, shown, studyVars>>

CropNext == SavePotholeImage

CropSpec == CropInit /\ [][CropNext]_vars

\* ---------------------------------------------------------- severity study
\* get_pothole_severity on its own, on a box and on the same box moved up by
\* "up" pixels: boxes of several sizes whose bottom edge lies in the middle of
\* the frame, at the spec's example, at the frame's bottom and below it.
SevSizes == { <<21, 21>>, <<100, 100>>, <<150, 100>>, <<200, 120>>, <<200, 200>>, <<250, 160>> }
SevBottoms ==
    { c + d : c \in {FrameH \div 2, 820, FrameH, FrameH + 500}, d \in -SevSlack..SevSlack }
SevShifts == (0..SevSlack) \cup {100, 400}
SevInputs ==
    { [box |-> <<800, y2 - sz[2], 800 + sz[1], y2>>, up |-> u] :
        sz \in SevSizes, y2 \in SevBottoms, u \in SevShifts }

MovedUp(box, u) == <<box[1], box[2] - u, box[3], box[4] - u>>

SeverityInit ==
    /\ scenario = [arrivals |-> 0, frames |-> 0]
    /\ ServerInit
    /\ cropIn = <<>>
    /\ cropOut = <<>>
    /\ sevIn \in SevInputs
    /\ sevOut = <<>>
    /\ detIn = <<>>
    /\ detOut = NoDetections

\* Two calls of get_pothole_severity(box_coords, (frame_h, frame_w)).
GetPotholeSeverity ==
    /\ sevIn # <<>>
    /\ sevOut = <<>>
    /\ sevOut' = << get_pothole_severity(sevIn.box, FrameH),
                    get_pothole_severity(MovedUp(sevIn.box, sevIn.up), FrameH) >>
    /\ UNCHANGED <<scenario, poolVars, localVars, histVars, submitVars, data_queue,
                   workerVars, storeVars, imageVars, cropVars, uploadVars, cap_opened,
                   detected, inserted, shown, sevIn, detIn, detOut>>

SeverityNext == GetPotholeSeverity

SeveritySpec == SeverityInit /\ [][SeverityNext]_vars

\* ------------------------------------------------------------ filter study
\* Lines 174-181 on their own, for a result with one box: its confidence in
\* hundredths and its corners lie around the thresholds.
DetConfs ==
    { CONFIDENCE_THRESHOLD_X100 + d : d \in -DetSlack..DetSlack } \cup {95}
DetWidths == { MIN_BOX_WIDTH + d : d \in -DetSlack..DetSlack } \cup {120}
DetHeights == { MIN_BOX_HEIGHT + d : d \in -DetSlack..DetSlack } \cup {80}
DetInputs ==
    { [conf |-> c, xyxy |-> <<800, 700, 800 + w, 700 + h>>] :
        c \in DetConfs, w \in DetWidths, h \in DetHeights }

FilterInit ==
    /\ scenario = [arrivals |-> 0, frames |-> 0]
    /\ ServerInit
    /\ cropIn = <<>>
    /\ cropOut = <<>>
    /\ sevIn = <<>>
    /\ sevOut = <<>>
    /\ detIn \in DetInputs
    /\ detOut = NoDetections

\* Lines 177-180: the two tests a box must pass.
PassesFilter(box) ==
    /\ box.conf > CONFIDENCE_THRESHOLD_X100
    /\ box.xyxy[3] - box.xyxy[1] > MIN_BOX_WIDTH
    /\ box.xyxy[4] - box.xyxy[2] > MIN_BOX_HEIGHT

\* detections = [], then the loop over the result's boxes; a box that passes is
\* appended as ([x1, y1, w, h], conf).
FilterDetections ==
    /\ detIn # <<>>
    /\ ~detOut.done
    /\ detOut' =
          [done |-> TRUE,
           detections |->
              IF PassesFilter(detIn)
              THEN << [ltwh |-> <<detIn.xyxy[1], detIn.xyxy[2],
                                 detIn.xyxy[3] - detIn.xyxy[1], detIn.xyxy[4] - detIn.xyxy[2]>>,
                       conf |-> detIn.conf] >>
              ELSE <<>>]
    /\ UNCHANGED <<scenario, poolVars, localVars, histVars, submitVars, data_queue,
                   workerVars, storeVars, imageVars, cropVars, uploadVars, cap_opened,
                   detected, inserted, shown, sevIn, sevOut, detIn>>

FilterNext == FilterDetections

FilterSpec == FilterInit /\ [][FilterNext]_vars

\* ------------------------------------------------------------------ claims
Range(q) == { q[i] : i \in 1..Len(q) }
IsPrefix(p, q) == Len(p) <= Len(q) /\ \A i \in 1..Len(p) : p[i] = q[i]
Distinct(q) == \A i, k \in 1..Len(q) : i # k => q[i] # q[k]
\* Track ids of the tasks of job j waiting in q, in queue order.
RECURSIVE TidsOf(_, _)
TidsOf(j, q) ==
    IF q = <<>> THEN <<>>
    ELSE (IF Head(q).src[1] = j THEN <<Head(q).src[2]>> ELSE <<>>) \o TidsOf(j, Tail(q))

\* C1: within one job no track id gets two tasks, every task is for a track that
\* was reported confirmed, the tasks are never more than the distinct confirmed
\* track ids seen, and they are exactly one per such id unless the emission failed.
C1_OneTaskPerConfirmedTrack ==
    \A j \in Jobs :
        /\ Distinct(emitted[j])
        /\ Distinct(popped[j] \o TidsOf(j, data_queue))
        /\ Range(emitted[j]) \subseteq Range(observed[j])
        /\ Len(emitted[j]) <= Len(observed[j])
        /\ pc[j] # "raised_imwrite" => Range(emitted[j]) = Range(observed[j])

\* A job has put tasks for two tracks and has skipped a confirmed track it met again.
C1_Witness ==
    \E j \in Jobs : Len(emitted[j]) = 2 /\ suppressed[j] # {}

\* C2: a failed insert does not end database_worker.
C2_WorkerSurvivesWriteFailure ==
    wpc # "raised"

\* C3: only database_worker is ever inside save_to_database_mongo, one task at a
\* time, and every document of the store was inserted by it.
C3_SingleWriter ==
    /\ writers \subseteq {DbWorker}
    /\ Cardinality(writers) <= 1
    /\ (writers # {}) <=> (wpc = "save")
    /\ \A d \in potholes_collection : d.by = DbWorker

\* Two pipelines run, tasks of another job wait, and the worker is writing.
C3_Witness ==
    /\ Cardinality(Running) >= 2
    /\ wpc = "save"
    /\ \E i \in 1..Len(data_queue) : data_queue[i].src[1] # wtask.src[1]

\* C4: the tasks the worker has taken from a job, followed by those of the job
\* still in the queue, are the job's tasks in the order it put them, which is the
\* order in which it first saw their tracks confirmed; what is in the store from a
\* job was taken from the queue before.
C4_FifoPerJob ==
    \A j \in Jobs :
        /\ popped[j] \o TidsOf(j, data_queue) = emitted[j]
        /\ IsPrefix(emitted[j], observed[j])
        /\ \A d \in potholes_collection : d.src[1] = j => d.src[2] \in Range(popped[j])

\* Job a's first task is written, and a task of job b waits ahead of a's second.
C4_Witness ==
    \E a, b \in Jobs :
        /\ a # b
        /\ Len(popped[a]) = 1
        /\ \E d \in potholes_collection : d.src = <<a, popped[a][1]>>
        /\ Len(data_queue) = 2
        /\ data_queue[1].src[1] = b
        /\ data_queue[2].src[1] = a

\* C5: never more than PoolSize pipelines run, each on a pool thread of its own.
C5_AtMostPoolSizeRunning ==
    /\ Cardinality(Running) <= PoolSize
    /\ \A j \in Running : jthread[j] \in Threads
    /\ \A a, b \in Running : a # b => jthread[a] # jthread[b]

\* Every pool thread runs a job and an accepted job waits.
C5_Witness ==
    Cardinality(Running) = PoolSize /\ workQueue # <<>>

\* C6: a report can be handled whatever the pool is doing, and every accepted job
\* (answered 202, in the pool's queue) eventually reaches a terminal state.
C6_AcceptedJobsFinish ==
    /\ [](\A j \in Jobs : (pc[j] = "new" /\ j <= scenario.arrivals) => ENABLED HandleReport(j))
    /\ \A j \in Jobs : (pc[j] = "queued") ~> (pc[j] \in Terminal)

\* A job was accepted while every pool thread was busy, and waits.
C6_Witness ==
    /\ \E j \in queuedWhileBusy : pc[j] = "queued"
    /\ IdleThreads = {}

\* C7: a degenerate crop never ends the job.
C7_DegenerateCropSkipsTrackOnly ==
    \A j \in Jobs : pc[j] # "raised_imwrite"

\* C8: a failure of the detector never ends the job.
C8_DetectorFailureSkipsFrameOnly ==
    \A j \in Jobs : pc[j] # "raised_model"

\* C9: no image file is written under a name already used in this process.
C9_ImageNamesUnique ==
    ~overwritten

\* C10: the region save_pothole_image crops lies in the frame and is not empty.
C10_CropWithinFrame ==
    cropOut # <<>> =>
        /\ 0 <= cropOut[1] /\ cropOut[1] < cropOut[3] /\ cropOut[3] <= FrameW
        /\ 0 <= cropOut[2] /\ cropOut[2] < cropOut[4] /\ cropOut[4] <= FrameH

CeilDiv(a, b) == (a + b - 1) \div b
\* Frames of job j that the loop body has dealt with: those counted, and the one
\* in hand once model(frame) was called on it.
FramesHandled(j) ==
    frame_count[j] + IF pc[j] \in {"tracks", "raised_model", "raised_imwrite"} THEN 1 ELSE 0

\* C11: the frames given to the detector and the tracker are, in order, those at
\* indices 0, N, 2N, ... of the frames read, ceil(F / N) of the F frames read so
\* far; a pipeline that reached the end of a stream of F frames has counted all F
\* and sampled ceil(F / N) of them.
C11_FrameSampling ==
    \A j \in Jobs :
        /\ detected[j] = [k \in 1..Len(detected[j]) |-> (k - 1) * FRAME_SKIP]
        /\ Len(detected[j]) = CeilDiv(FramesHandled(j), FRAME_SKIP)
        /\ pc[j] = "model" => frame_count[j] % FRAME_SKIP = 0
        /\ pc[j] = "returned" => Len(detected[j]) = CeilDiv(frame_count[j], FRAME_SKIP)

\* A video of four frames was read to its end: frames 0 and 3 were sampled.
C11_Witness ==
    \E j \in Jobs : pc[j] = "returned" /\ frame_count[j] = 4 /\ detected[j] = <<0, 3>>

\* The documents of the store that came from job j.
DocsOf(j) == { d \in potholes_collection : d.src[1] = j }

\* C12: a task put on data_queue is taken from it at most once and is not in the
\* queue again afterwards, is inserted at most once and only after it was taken,
\* and, unless a write fails, every task put is eventually inserted.
C12_ConsumedExactlyOnce ==
    /\ [](\A j \in Jobs :
            /\ Distinct(popped[j])
            /\ Range(popped[j]) \cap Range(TidsOf(j, data_queue)) = {}
            /\ popped[j] \o TidsOf(j, data_queue) = emitted[j]
            /\ Distinct(inserted[j])
            /\ Range(inserted[j]) \subseteq Range(popped[j])
            /\ Cardinality(DocsOf(j)) = Len(inserted[j]))
    /\ \A j \in Jobs, tid \in TrackIds :
          (tid \in Range(emitted[j])) ~> (tid \in Range(inserted[j]) \/ wpc = "raised")

\* Both tasks of one job are stored while a task of another job was put behind them.
C12_Witness ==
    \E a, b \in Jobs :
        /\ a # b
        /\ Len(inserted[a]) = 2
        /\ emitted[b] # <<>>
        /\ wpc = "get"

\* C13: a job whose video could not be opened has ended at the early return: it
\* gave no frame to the detector or the tracker, saw no track, put no task, is
\* not in the pool's queue again, and never leaves that state (it neither
\* completes nor is run again).
C13_OpenFailureIsFatal ==
    /\ [](\A j \in Jobs : cap_opened[j] = "no" =>
            /\ pc[j] = "not_opened"
            /\ frame_count[j] = 0
            /\ detected[j] = <<>>
            /\ observed[j] = <<>>
            /\ emitted[j] = <<>>
            /\ TidsOf(j, data_queue) = <<>>
            /\ DocsOf(j) = {}
            /\ \A i \in 1..Len(workQueue) : workQueue[i] # j)
    /\ [][\A j \in Jobs : pc[j] = "not_opened" => pc'[j] = "not_opened"]_vars

\* One job failed to open its video, its pool thread is free again, and another
\* job has put a task since.
C13_Witness ==
    \E a, b \in Jobs :
        /\ cap_opened[a] = "no"
        /\ jthread[a] = 0
        /\ cap_opened[b] = "yes"
        /\ emitted[b] # <<>>

SeverityRank(sev) == CASE sev = "Small" -> 0 [] sev = "Medium" -> 1 [] sev = "Large" -> 2

\* C14: of two boxes of the same size in the same frame, the one whose bottom
\* edge is higher up (smaller y2) has an adjusted area that is not smaller, and
\* its severity is not lower.
C14_SeverityMonotoneInY2 ==
    sevOut # <<>> =>
        LET low == sevIn.box
            high == MovedUp(sevIn.box, sevIn.up)
        IN  /\ AdjustedAreaX2H(high, FrameH) >= AdjustedAreaX2H(low, FrameH)
            /\ SeverityRank(sevOut[2]) >= SeverityRank(sevOut[1])

\* The same box is Medium at the frame's bottom and Large further up.
C14_Witness ==
    /\ sevOut = <<"Medium", "Large">>
    /\ sevIn.box[4] = FrameH
    /\ sevIn.up > 0

\* C15: with adjusted_area = pixel_area * (1 + ((frame_h - y2) / frame_h) * 2.5),
\* the result is "Large" exactly when adjusted_area > 40000, "Medium" exactly when
\* 15000 < adjusted_area <= 40000, and "Small" otherwise; the box (800,700)-(1000,820)
\* in a frame of height 1080 is "Medium". (Both sides are multiplied by 10 * frame_h.)
C15_SeverityThresholds ==
    sevOut # <<>> =>
        LET b == sevIn.box
            pixel_area == (b[3] - b[1]) * (b[4] - b[2])
            adjX10H == pixel_area * (10 * FrameH + (FrameH - b[4]) * 25)
        IN  /\ sevOut[1] = "Large" <=> adjX10H > 40000 * 10 * FrameH
            /\ sevOut[1] = "Medium" <=>
                  (adjX10H > 15000 * 10 * FrameH /\ adjX10H <= 40000 * 10 * FrameH)
            /\ sevOut[1] = "Small" <=> adjX10H <= 15000 * 10 * FrameH
            /\ b = <<800, 700, 1000, 820>> => sevOut[1] = "Medium"

\* The spec's example was computed.
C15_Witness ==
    /\ sevOut # <<>>
    /\ sevIn.box = <<800, 700, 1000, 820>>
    /\ sevOut[1] = "Medium"

\* C16: the file a queued or running job reads holds that job's own upload.
C16_VideoOwnedByJob ==
    \A j \in Jobs :
        pc[j] \in {"queued"} \cup RunningPcs => upload_folder[video_path[j]] = j

\* C17: a job's ledger holds the track ids of its own tasks and nothing else, a
\* job skips a confirmed track only when it has itself put a task for that id,
\* and when two jobs have both met a confirmed track of the same id, each has put
\* its own task for it (or has ended in the attempt to save its image).
C17_LedgerPrivateToJob ==
    /\ \A j \in Jobs :
          /\ saved_pothole_ids[j] = Range(emitted[j])
          /\ suppressed[j] \subseteq Range(emitted[j])
    /\ \A a, b \in Jobs, tid \in TrackIds :
          (a # b /\ tid \in Range(observed[a]) /\ tid \in Range(observed[b])) =>
              (tid \in Range(emitted[a]) \/ pc[a] = "raised_imwrite")

\* Two jobs run at the same time, one has track id 1 in its ledger already, and
\* the other has met a confirmed track 1 after that and has put its own task.
C17_Witness ==
    \E a, b \in Jobs :
        /\ a # b
        /\ {a, b} \subseteq Running
        /\ 1 \in saved_pothole_ids[a]
        /\ 1 \in saved_pothole_ids[b]
        /\ Len(data_queue) >= 2
        /\ data_queue[1].src = <<a, 1>>
        /\ data_queue[Len(data_queue)].src = <<b, 1>>

Occurrences(q, x) == Cardinality({ i \in 1..Len(q) : q[i] = x })
NumericTexts == {"12.97", "77.59"}

\* C18: a request without a video part, with a latitude or longitude that is
\* missing or no number, or with an empty filename is answered 400 with a reason,
\* saves no file and submits no job; a request answered 202 has saved its video
\* and has submitted its job once: the job waits in the pool's queue exactly once
\* or was started from it.
C18_AcceptOrRejectAtOnce ==
    \A j \in Jobs :
        /\ (request[j] = NoRequest) <=> (response[j] = NoResponse)
        /\ (request[j] = NoRequest) <=> (pc[j] = "new")
        /\ response[j].code \in {0, 202, 400}
        /\ ( /\ request[j] # NoRequest
             /\ \/ ~request[j].video
                \/ request[j].latitude \notin NumericTexts
                \/ request[j].longitude \notin NumericTexts
                \/ request[j].filename = "" )
           => /\ response[j].code = 400
              /\ response[j].text # ""
              /\ pc[j] = "rejected"
              /\ video_path[j] = "none"
              /\ \A n \in VideoNames : upload_folder[n] # j
              /\ Occurrences(workQueue, j) = 0
              /\ cap_opened[j] = "unset"
        /\ response[j].code = 202
           => /\ video_path[j] = secure_filename(request[j].filename)
              /\ pc[j] \in {"queued"} \cup RunningPcs \cup Terminal
              /\ Occurrences(workQueue, j) = IF pc[j] = "queued" THEN 1 ELSE 0

\* One request was refused for its empty filename while another, accepted, waits
\* in the pool's queue.
C18_Witness ==
    \E a, b \in Jobs :
        /\ response[a] = [code |-> 400, text |-> "No selected file"]
        /\ response[b].code = 202
        /\ pc[b] = "queued"

\* C19: a detection is handed to the tracker exactly when its confidence is at
\* least 0.6 and its width and its height are at least 20 pixels each.
C19_FilterKeepsAtThreshold ==
    detOut.done =>
        ( detOut.detections # <<>>
          <=> /\ detIn.conf >= 60
              /\ detIn.xyxy[3] - detIn.xyxy[1] >= 20
              /\ detIn.xyxy[4] - detIn.xyxy[2] >= 20 )

StatusOf(collection, id) == { d.status : d \in { e \in collection : e.src = id } }

====
